---- MODULE Spec2Model ----
(***************************************************************************)
(* State-machine model of the SecuRizz on-chain programs:                  *)
(*   - securizz            (programs/securizz/src/lib.rs): the audit proof *)
(*     registry, one AuditProof account per contract hash;                 *)
(*   - securizz_tokenomics (programs/securizz/src/token_economics.rs):     *)
(*     staking, reward claims and stake-weighted votes.                    *)
(* Every instruction is one atomic action: the account constraints of its  *)
(* #[derive(Accounts)] struct, then the handler body, then the account     *)
(* write-back.  An instruction that returns Err (or panics) is rolled back *)
(* by the runtime as a whole, so only its outcome is recorded.             *)
(***************************************************************************)
EXTENDS Integers, Naturals, Sequences, FiniteSets, TLC

VARIABLES
    now,             \* Clock::get()?.unix_timestamp
    overflowChecks,  \* build profile: TRUE = overflow panics, FALSE = wraps
    proofs,          \* AuditProof accounts, by contract_hash seed (DOMAIN = those that exist)
    stakes,          \* StakeAccount accounts, by user seed
    votes,           \* VoteAccount accounts, by (proposal_id, voter) seeds
    tokens,          \* SPL token accounts: one per user and the staking pool
    last             \* the instruction executed last and its outcome

vars == <<now, overflowChecks, proofs, stakes, votes, tokens, last>>

(***************************************************************************)
(* Bounds of the model.                                                    *)
(***************************************************************************)
\* The u64 / i64 fields are modelled as WordBits-wide words (TLC's integers
\* are 32 bits wide): every wrap, overflow and sign change happens at
\* 2^WordBits and 2^(WordBits-1) instead of 2^64 and 2^63.
WordBits == 24
\* The clock runs from 0 to MaxDays days.
MaxDays == 2
\* The same for the runs of the registry and of both programs together.
MaxRegistryDays == 1

SECONDS_PER_DAY == 86400
REWARD_DIVISOR == 100
CID_SPACE == 100

U64_MOD == 2 ^ WordBits
U64_MAX == U64_MOD - 1
I64_MAX == 2 ^ (WordBits - 1) - 1
I64_MIN == 0 - 2 ^ (WordBits - 1)

Pubkeys == {"k1", "k2"}
ContractHashes == {"h1", "h2"}
\* report hashes that get submitted, and those verify_audit_integrity is given
ReportHashes == {"r1"}
ExpectedHashes == {"r1", "r2"}
\* An ipfs_cid is represented by its length in bytes.
IpfsCids == {46, 101}
RiskScores == {7}
ContractAddresses == {"a1"}
\* audit_score: u8
AuditScores == {100, 101}

None == "none"
NoEvent == "none"

(***************************************************************************)
(* securizz: the audit proof registry (lib.rs).                            *)
(***************************************************************************)
\* space = ... of the init constraint of SubmitProof.audit_proof
AuditProofSpace == 8 + 32 + 32 + 4 + CID_SPACE + 32 + 1 + 8 + 8 + 8 + 1 + 32

\* Borsh size of an AuditProof behind its 8-byte discriminator.
AuditProofSize(p) == 8 + 32 + 32 + (4 + p.ipfs_cid) + 32 + 1 + 8 + 8 + 8 + 1 + 32

\* The account as `init` hands it to the handler: allocated and zero-filled.
ZeroedAuditProof ==
    [contract_hash |-> "zero", report_hash |-> "zero", ipfs_cid |-> 0,
     contract_address |-> "zero", audit_score |-> 0, risk_score |-> 0,
     timestamp |-> 0, verification_timestamp |-> 0, verified |-> FALSE,
     oracle |-> "zero"]

\* Account creation by an `init` constraint: the address `key` gets the record.
Create(accounts, key, rec) ==
    [k \in DOMAIN accounts \cup {key} |-> IF k = key THEN rec ELSE accounts[k]]

Outcome(op, caller, key, result, event) ==
    [op |-> op, caller |-> caller, key |-> key, result |-> result,
     event |-> event]

\* Body of submit_proof: the fields it assigns to the fresh account.
SubmitProofBody(acc, oracle, contract_hash, report_hash, ipfs_cid, risk_score, contract_address, audit_score, clock) ==
    [acc EXCEPT !.contract_hash = contract_hash,
                !.report_hash = report_hash,
                !.ipfs_cid = ipfs_cid,
                !.risk_score = risk_score,
                !.contract_address = contract_address,
                !.audit_score = audit_score,
                !.timestamp = clock,
                !.verified = FALSE,
                !.oracle = oracle]

ProofSubmitted(p) ==
    [name |-> "ProofSubmitted", contract_hash |-> p.contract_hash,
     report_hash |-> p.report_hash, contract_address |-> p.contract_address,
     audit_score |-> p.audit_score, risk_score |-> p.risk_score,
     timestamp |-> p.timestamp]

\* submit_proof with `init_if_needed` in place of `init`: an occupied address
\* is accepted and written over.
SubmitProofResultInitIfNeeded(contract_hash, p) ==
    IF AuditProofSize(p) > AuditProofSpace THEN "AccountDidNotSerialize" ELSE "Ok"

\* Result of submit_proof: the init constraint rejects an address that is
\* already allocated; the write-back fails when the record outgrows `space`.
SubmitProofResult(contract_hash, p) ==
    IF contract_hash \in DOMAIN proofs THEN "AccountAlreadyInUse"
    ELSE IF AuditProofSize(p) > AuditProofSpace THEN "AccountDidNotSerialize"
    ELSE "Ok"

submit_proof(oracle, contract_hash, report_hash, ipfs_cid, risk_score, contract_address, audit_score) ==
    LET p == SubmitProofBody(ZeroedAuditProof, oracle, contract_hash,
                             report_hash, ipfs_cid, risk_score,
                             contract_address, audit_score, now)
        res == SubmitProofResult(contract_hash, p)
    IN /\ proofs' = IF res = "Ok" THEN Create(proofs, contract_hash, p)
                    ELSE proofs
       /\ last' = Outcome("submit_proof", oracle, contract_hash, res,
                          IF res = "Ok" THEN ProofSubmitted(p) ELSE NoEvent)
       /\ UNCHANGED <<now, overflowChecks, stakes, votes, tokens>>

\* update_verification without its require!: any signer passes.
UpdateVerificationResultNoRequire(authority, key) ==
    IF key \notin DOMAIN proofs THEN "AccountNotInitialized" ELSE "Ok"

\* require!(ctx.accounts.authority.key() == audit_proof.oracle, Unauthorized)
UpdateVerificationResult(authority, key) ==
    IF key \notin DOMAIN proofs THEN "AccountNotInitialized"
    ELSE IF authority # proofs[key].oracle THEN "Unauthorized"
    ELSE "Ok"

\* update_verification that also resets the risk score.
UpdateVerificationBodyRescored(acc, verified) ==
    [acc EXCEPT !.verified = verified, !.risk_score = 0]

\* update_verification that also clears the verification timestamp.
UpdateVerificationBodyCleared(acc, verified) ==
    [acc EXCEPT !.verified = verified, !.verification_timestamp = 0]

UpdateVerificationBody(acc, verified) == [acc EXCEPT !.verified = verified]

update_verification(authority, key, verified) ==
    LET res == UpdateVerificationResult(authority, key)
    IN /\ proofs' = IF res = "Ok"
                    THEN [proofs EXCEPT ![key] = UpdateVerificationBody(@, verified)]
                    ELSE proofs
       /\ last' = Outcome("update_verification", authority, key, res,
                          IF res = "Ok"
                          THEN [name |-> "VerificationUpdated",
                                contract_hash |-> proofs[key].contract_hash,
                                verified |-> verified]
                          ELSE NoEvent)
       /\ UNCHANGED <<now, overflowChecks, stakes, votes, tokens>>

\* A ProofRetrieved event with the two scores in each other's place.
ProofRetrievedSwapped(p) ==
    [name |-> "ProofRetrieved", contract_hash |-> p.contract_hash,
     report_hash |-> p.report_hash, contract_address |-> p.contract_address,
     ipfs_cid |-> p.ipfs_cid, audit_score |-> p.risk_score,
     risk_score |-> p.audit_score, timestamp |-> p.timestamp,
     verified |-> p.verified]

ProofRetrieved(p) ==
    [name |-> "ProofRetrieved", contract_hash |-> p.contract_hash,
     report_hash |-> p.report_hash, contract_address |-> p.contract_address,
     ipfs_cid |-> p.ipfs_cid, audit_score |-> p.audit_score,
     risk_score |-> p.risk_score, timestamp |-> p.timestamp,
     verified |-> p.verified]

\* GetProof declares no signer: the caller is whoever pays for the transaction.
get_proof(caller, key) ==
    LET res == IF key \notin DOMAIN proofs THEN "AccountNotInitialized" ELSE "Ok"
    IN /\ last' = Outcome("get_proof", caller, key, res,
                          IF res = "Ok" THEN ProofRetrieved(proofs[key]) ELSE NoEvent)
       /\ UNCHANGED <<now, overflowChecks, proofs, stakes, votes, tokens>>

\* require!(stored_hash == expected_ipfs_hash, HashMismatch); VerifyIntegrity
\* declares `authority: Signer` and puts no constraint on it.
VerifyAuditIntegrityResult(authority, key, expected_ipfs_hash) ==
    IF key \notin DOMAIN proofs THEN "AccountNotInitialized"
    ELSE IF proofs[key].report_hash # expected_ipfs_hash THEN "HashMismatch"
    ELSE "Ok"

\* verify_audit_integrity that stamps the creation time instead of the clock.
VerifyAuditIntegrityBodyStale(acc, clock) ==
    [acc EXCEPT !.verified = TRUE, !.verification_timestamp = acc.timestamp]

VerifyAuditIntegrityBody(acc, clock) ==
    [acc EXCEPT !.verified = TRUE, !.verification_timestamp = clock]

verify_audit_integrity(authority, key, expected_ipfs_hash) ==
    LET res == VerifyAuditIntegrityResult(authority, key, expected_ipfs_hash)
    IN /\ proofs' = IF res = "Ok"
                    THEN [proofs EXCEPT ![key] = VerifyAuditIntegrityBody(@, now)]
                    ELSE proofs
       /\ last' = Outcome("verify_audit_integrity", authority, key, res,
                          IF res = "Ok"
                          THEN [name |-> "AuditVerified",
                                contract_hash |-> proofs[key].contract_hash,
                                contract_address |-> proofs[key].contract_address,
                                audit_score |-> proofs[key].audit_score,
                                verification_timestamp |-> now]
                          ELSE NoEvent)
       /\ UNCHANGED <<now, overflowChecks, stakes, votes, tokens>>

(***************************************************************************)
(* Machine integers.  A result is [ok, val]: ok = FALSE is a panic.        *)
(***************************************************************************)
Val(v) == [ok |-> TRUE, val |-> v]
Panic == [ok |-> FALSE, val |-> 0]

\* `x as i64` of a u64 and `x as u64` of an i64: reinterpretation, no check.
AsI64(x) == IF x > I64_MAX THEN x - U64_MOD ELSE x
AsU64(x) == IF x < 0 THEN x + U64_MOD ELSE x

WrapI64(x) == ((x - I64_MIN) % U64_MOD) + I64_MIN

\* a * b modulo m without leaving TLC's 32-bit integers.
RECURSIVE MulMod(_, _, _)
MulMod(a, b, m) ==
    IF b = 0 THEN 0
    ELSE LET h == MulMod(a, b \div 2, m)
         IN (2 * h + (IF b % 2 = 1 THEN a ELSE 0)) % m

\* i64 + i64 and i64 - i64
AddI64(a, b, checks) ==
    IF a + b \in I64_MIN..I64_MAX THEN Val(a + b)
    ELSE IF checks THEN Panic ELSE Val(WrapI64(a + b))

SubI64(a, b, checks) ==
    IF a - b \in I64_MIN..I64_MAX THEN Val(a - b)
    ELSE IF checks THEN Panic ELSE Val(WrapI64(a - b))

\* u64 * u64, u64 - u64, u64 + u64
MulU64(a, b, checks) ==
    IF b = 0 \/ a <= U64_MAX \div b THEN Val(a * b)
    ELSE IF checks THEN Panic ELSE Val(MulMod(a, b, U64_MOD))

SubU64(a, b, checks) ==
    IF a >= b THEN Val(a - b)
    ELSE IF checks THEN Panic ELSE Val(a - b + U64_MOD)

\* A u64 addition that leaves its left operand as it was.
AddU64Dropped(a, b, checks) == Val(a)

AddU64(a, b, checks) ==
    IF a + b <= U64_MAX THEN Val(a + b)
    ELSE IF checks THEN Panic ELSE Val((a + b) % U64_MOD)

(***************************************************************************)
(* securizz_tokenomics: staking, rewards, votes (token_economics.rs).      *)
(***************************************************************************)
Pool == "pool"
TokenAccounts == Pubkeys \cup {Pool}

\* What a large holder owns: enough for daily * elapsed to leave the word.
LargeAmount == U64_MAX \div 2
InitialTokens == [a \in TokenAccounts |->
                    IF a = "k1" THEN LargeAmount ELSE IF a = "k2" THEN 1000 ELSE 0]

Amounts == {0, 1000, LargeAmount}
\* 2^(WordBits-1), the least duration whose `as i64` is negative
SignBitDuration == I64_MAX + 1
Durations == {SECONDS_PER_DAY - 1, SECONDS_PER_DAY, 2 * SECONDS_PER_DAY}
ProposalIds == {1}
VoteWeights == {0, 1000, 1001}

\* token::transfer of the SPL token program: all or nothing.
TransferResult(bal, from, to, amount) ==
    IF bal[from] < amount THEN "InsufficientFunds"
    ELSE IF from # to /\ bal[to] + amount > U64_MAX THEN "Overflow"
    ELSE "Ok"

Transfer(bal, from, to, amount) ==
    IF from = to THEN bal
    ELSE [bal EXCEPT ![from] = @ - amount, ![to] = @ + amount]

ZeroedStakeAccount ==
    [user |-> "zero", amount |-> 0, duration |-> 0, staked_at |-> 0,
     unlock_time |-> 0, rewards_claimed |-> 0]

\* stake_tokens without the require! on the duration.
StakeTokensBodyAnyDuration(acc, user, amount, duration, clock, checks) ==
    IF ~(amount > 0) THEN [result |-> "InvalidAmount", account |-> acc]
    ELSE LET unlock == AddI64(clock, AsI64(duration), checks)
         IN IF ~unlock.ok THEN [result |-> "Panic", account |-> acc]
            ELSE [result |-> "Ok",
                  account |-> [acc EXCEPT !.user = user,
                                          !.amount = amount,
                                          !.duration = duration,
                                          !.staked_at = clock,
                                          !.unlock_time = unlock.val,
                                          !.rewards_claimed = 0]]

\* Body of stake_tokens up to the transfer: [result, account].
StakeTokensBody(acc, user, amount, duration, clock, checks) ==
    IF ~(amount > 0) THEN [result |-> "InvalidAmount", account |-> acc]
    ELSE IF ~(duration >= SECONDS_PER_DAY)
    THEN [result |-> "InvalidDuration", account |-> acc]
    ELSE LET unlock == AddI64(clock, AsI64(duration), checks)
         IN IF ~unlock.ok THEN [result |-> "Panic", account |-> acc]
            ELSE [result |-> "Ok",
                  account |-> [acc EXCEPT !.user = user,
                                          !.amount = amount,
                                          !.duration = duration,
                                          !.staked_at = clock,
                                          !.unlock_time = unlock.val,
                                          !.rewards_claimed = 0]]

\* stake_tokens with `init_if_needed` in place of `init`.
StakeTokensEvalInitIfNeeded(user, staking_pool, amount, duration) ==
    LET body == StakeTokensBody(ZeroedStakeAccount, user, amount, duration,
                                now, overflowChecks)
    IN IF body.result # "Ok" THEN body
       ELSE [result |-> TransferResult(tokens, user, staking_pool, amount),
             account |-> body.account]

\* stake_tokens whose stake_account seeds leave out the user: one address for
\* every staker.
StakeTokensEvalOneSeed(user, staking_pool, amount, duration) ==
    IF DOMAIN stakes # {}
    THEN [result |-> "AccountAlreadyInUse", account |-> ZeroedStakeAccount]
    ELSE LET body == StakeTokensBody(ZeroedStakeAccount, user, amount, duration,
                                     now, overflowChecks)
         IN IF body.result # "Ok" THEN body
            ELSE [result |-> TransferResult(tokens, user, staking_pool, amount),
                  account |-> body.account]

\* stake_tokens as a whole: the init constraint of StakeTokens.stake_account,
\* the body, the transfer into `staking_pool` (any token account the caller
\* names: StakeTokens puts no constraint on it).
StakeTokensEval(user, staking_pool, amount, duration) ==
    IF user \in DOMAIN stakes
    THEN [result |-> "AccountAlreadyInUse", account |-> ZeroedStakeAccount]
    ELSE LET body == StakeTokensBody(ZeroedStakeAccount, user, amount, duration,
                                     now, overflowChecks)
         IN IF body.result # "Ok" THEN body
            ELSE [result |-> TransferResult(tokens, user, staking_pool, amount),
                  account |-> body.account]

\* stake_tokens whose account write survives a failed transfer.
stake_tokensNoRollback(user, staking_pool, amount, duration) ==
    LET r == StakeTokensEval(user, staking_pool, amount, duration)
        written == r.result \in {"Ok", "InsufficientFunds", "Overflow"}
    IN /\ stakes' = IF written THEN Create(stakes, user, r.account) ELSE stakes
       /\ tokens' = IF r.result = "Ok"
                    THEN Transfer(tokens, user, staking_pool, amount)
                    ELSE tokens
       /\ last' = Outcome("stake_tokens", user, user, r.result, NoEvent)
       /\ UNCHANGED <<now, overflowChecks, proofs, votes>>

stake_tokens(user, staking_pool, amount, duration) ==
    LET r == StakeTokensEval(user, staking_pool, amount, duration)
    IN /\ stakes' = IF r.result = "Ok" THEN Create(stakes, user, r.account)
                    ELSE stakes
       /\ tokens' = IF r.result = "Ok"
                    THEN Transfer(tokens, user, staking_pool, amount)
                    ELSE tokens
       /\ last' = Outcome("stake_tokens", user, user, r.result,
                          IF r.result = "Ok"
                          THEN [name |-> "TokensStaked", user |-> user,
                                amount |-> amount, duration |-> duration,
                                unlock_time |-> r.account.unlock_time]
                          ELSE NoEvent)
       /\ UNCHANGED <<now, overflowChecks, proofs, votes>>

\* let total_rewards = (daily_rewards * staking_duration as u64) / 86400;
TotalRewards(amount, staking_duration, checks) ==
    LET daily_rewards == amount \div REWARD_DIVISOR
        product == MulU64(daily_rewards, AsU64(staking_duration), checks)
    IN IF product.ok THEN Val(product.val \div SECONDS_PER_DAY) ELSE Panic

\* The unlock gate measured from the time of staking alone.
UnlockedSinceStake(acc, clock) == clock >= acc.staked_at

\* require!(clock.unix_timestamp >= stake_account.unlock_time, StakeNotUnlocked)
Unlocked(acc, clock) == clock >= acc.unlock_time

\* claim_rewards that restarts the accrual at the time of the claim.
ClaimRewardsBodyRestaked(acc, clock, checks) ==
    LET fail(e) == [result |-> e, account |-> acc, claimable |-> 0]
    IN IF ~Unlocked(acc, clock) THEN fail("StakeNotUnlocked")
       ELSE LET staking_duration == SubI64(clock, acc.staked_at, checks)
            IN IF ~staking_duration.ok THEN fail("Panic")
       ELSE LET total_rewards == TotalRewards(acc.amount, staking_duration.val, checks)
            IN IF ~total_rewards.ok THEN fail("Panic")
       ELSE IF ~(total_rewards.val > 0) THEN fail("NoRewardsAvailable")
       ELSE [result |-> "Ok",
             account |-> [acc EXCEPT !.staked_at = clock],
             claimable |-> total_rewards.val]

\* Body of claim_rewards up to the transfer: [result, account, claimable].
ClaimRewardsBody(acc, clock, checks) ==
    LET fail(e) == [result |-> e, account |-> acc, claimable |-> 0]
    IN IF ~Unlocked(acc, clock) THEN fail("StakeNotUnlocked")
       ELSE LET staking_duration == SubI64(clock, acc.staked_at, checks)
            IN IF ~staking_duration.ok THEN fail("Panic")
       ELSE LET total_rewards == TotalRewards(acc.amount, staking_duration.val, checks)
            IN IF ~total_rewards.ok THEN fail("Panic")
       ELSE LET claimable_rewards ==
                    SubU64(total_rewards.val, acc.rewards_claimed, checks)
            IN IF ~claimable_rewards.ok THEN fail("Panic")
       ELSE IF ~(claimable_rewards.val > 0) THEN fail("NoRewardsAvailable")
       ELSE LET claimed == AddU64(acc.rewards_claimed, claimable_rewards.val, checks)
            IN IF ~claimed.ok THEN fail("Panic")
       ELSE [result |-> "Ok",
             account |-> [acc EXCEPT !.rewards_claimed = claimed.val],
             claimable |-> claimable_rewards.val]

\* claim_rewards whose stake_account seeds leave out the signer: the claim
\* runs on the stake of whichever staker holds the one address.
ClaimRewardsEvalAnyStake(user, user_token_account) ==
    IF DOMAIN stakes = {}
    THEN [result |-> "AccountNotInitialized", account |-> ZeroedStakeAccount,
          claimable |-> 0]
    ELSE LET owner == CHOOSE v \in DOMAIN stakes : TRUE
             body == ClaimRewardsBody(stakes[owner], now, overflowChecks)
         IN IF body.result # "Ok" THEN body
            ELSE [body EXCEPT !.result =
                    TransferResult(tokens, Pool, user_token_account, body.claimable)]

\* claim_rewards as a whole: ClaimRewards.stake_account is the PDA of the
\* signer; the transfer is signed by the staking authority, so it draws on the
\* pool; `user_token_account` is any token account the caller names.
ClaimRewardsEval(user, user_token_account) ==
    IF user \notin DOMAIN stakes
    THEN [result |-> "AccountNotInitialized", account |-> ZeroedStakeAccount,
          claimable |-> 0]
    ELSE LET body == ClaimRewardsBody(stakes[user], now, overflowChecks)
         IN IF body.result # "Ok" THEN body
            ELSE [body EXCEPT !.result =
                    TransferResult(tokens, Pool, user_token_account, body.claimable)]

claim_rewards(user, user_token_account) ==
    LET r == ClaimRewardsEval(user, user_token_account)
    IN /\ stakes' = IF r.result = "Ok" THEN [stakes EXCEPT ![user] = r.account]
                    ELSE stakes
       /\ tokens' = IF r.result = "Ok"
                    THEN Transfer(tokens, Pool, user_token_account, r.claimable)
                    ELSE tokens
       /\ last' = Outcome("claim_rewards", user, user, r.result,
                          IF r.result = "Ok"
                          THEN [name |-> "RewardsClaimed", user |-> user,
                                amount |-> r.claimable,
                                total_claimed |-> r.account.rewards_claimed]
                          ELSE NoEvent)
       /\ UNCHANGED <<now, overflowChecks, proofs, votes>>

ZeroedVoteAccount ==
    [proposal_id |-> 0, voter |-> "zero", vote_weight |-> 0, support |-> FALSE,
     voted_at |-> 0]

\* vote_on_proposal without the require! on the stake.
VoteOnProposalBodyAnyWeight(acc, stake_account, voter, proposal_id, vote_weight, support, clock) ==
    IF ~(vote_weight > 0)
    THEN [result |-> "InvalidVoteWeight", account |-> acc]
    ELSE [result |-> "Ok",
          account |-> [acc EXCEPT !.proposal_id = proposal_id,
                                  !.voter = voter,
                                  !.vote_weight = vote_weight,
                                  !.support = support,
                                  !.voted_at = clock]]

\* Body of vote_on_proposal: [result, account].
VoteOnProposalBody(acc, stake_account, voter, proposal_id, vote_weight, support, clock) ==
    IF ~(stake_account.amount >= vote_weight)
    THEN [result |-> "InsufficientStake", account |-> acc]
    ELSE IF ~(vote_weight > 0)
    THEN [result |-> "InvalidVoteWeight", account |-> acc]
    ELSE [result |-> "Ok",
          account |-> [acc EXCEPT !.proposal_id = proposal_id,
                                  !.voter = voter,
                                  !.vote_weight = vote_weight,
                                  !.support = support,
                                  !.voted_at = clock]]

\* vote_on_proposal with `init_if_needed` in place of `init`.
VoteOnProposalEvalInitIfNeeded(voter, proposal_id, vote_weight, support) ==
    IF voter \notin DOMAIN stakes
    THEN [result |-> "AccountNotInitialized", account |-> ZeroedVoteAccount]
    ELSE VoteOnProposalBody(ZeroedVoteAccount, stakes[voter], voter, proposal_id,
                            vote_weight, support, now)

\* vote_on_proposal as a whole: VoteOnProposal.vote_account is an `init` PDA of
\* (proposal_id, voter), VoteOnProposal.stake_account the voter's stake PDA.
VoteOnProposalEval(voter, proposal_id, vote_weight, support) ==
    IF <<proposal_id, voter>> \in DOMAIN votes
    THEN [result |-> "AccountAlreadyInUse", account |-> ZeroedVoteAccount]
    ELSE IF voter \notin DOMAIN stakes
    THEN [result |-> "AccountNotInitialized", account |-> ZeroedVoteAccount]
    ELSE VoteOnProposalBody(ZeroedVoteAccount, stakes[voter], voter, proposal_id,
                            vote_weight, support, now)

\* The seeds of VoteOnProposal.vote_account, [b"vote", proposal_id, voter], as
\* the name of the record in an outcome.
VoteKey(proposal_id, voter) == ToString(proposal_id) \o "/" \o voter

vote_on_proposal(voter, proposal_id, vote_weight, support) ==
    LET r == VoteOnProposalEval(voter, proposal_id, vote_weight, support)
    IN /\ votes' = IF r.result = "Ok"
                   THEN Create(votes, <<proposal_id, voter>>, r.account)
                   ELSE votes
       /\ last' = Outcome("vote_on_proposal", voter, VoteKey(proposal_id, voter),
                          r.result,
                          IF r.result = "Ok"
                          THEN [name |-> "VoteCast", proposal_id |-> proposal_id,
                                voter |-> voter, vote_weight |-> vote_weight,
                                support |-> support]
                          ELSE NoEvent)
       /\ UNCHANGED <<now, overflowChecks, proofs, stakes, tokens>>

(***************************************************************************)
(* The clock sysvar: monotonic, advanced by the cluster a day at a time.   *)
(***************************************************************************)
\* A clock that starts over when it reaches the end of its run.
ClockAdvanceWrapping(maxDays) ==
    /\ now' = IF now + SECONDS_PER_DAY <= maxDays * SECONDS_PER_DAY
              THEN now + SECONDS_PER_DAY
              ELSE 0
    /\ last' = Outcome("tick", None, None, "Ok", NoEvent)
    /\ UNCHANGED <<overflowChecks, proofs, stakes, votes, tokens>>

ClockAdvance(maxDays) ==
    /\ now + SECONDS_PER_DAY <= maxDays * SECONDS_PER_DAY
    /\ now' = now + SECONDS_PER_DAY
    /\ last' = Outcome("tick", None, None, "Ok", NoEvent)
    /\ UNCHANGED <<overflowChecks, proofs, stakes, votes, tokens>>

Tick == ClockAdvance(MaxDays)

TickRegistry == ClockAdvance(MaxRegistryDays)

(***************************************************************************)
(* Specifications.                                                         *)
(***************************************************************************)
Init ==
    /\ now = 0
    /\ overflowChecks \in BOOLEAN
    /\ proofs = <<>>
    /\ stakes = <<>>
    /\ votes = <<>>
    /\ tokens = InitialTokens
    /\ last = Outcome("init", None, None, "Ok", NoEvent)

\* The instructions, their arguments drawn from the given sets.
SubmitProofOver(hashes, scores) ==
    \E o \in Pubkeys, h \in hashes, r \in ReportHashes, c \in IpfsCids,
       s \in RiskScores, a \in ContractAddresses, q \in scores :
        submit_proof(o, h, r, c, s, a, q)

UpdateVerificationOver(hashes) ==
    \E o \in Pubkeys, h \in hashes, v \in BOOLEAN : update_verification(o, h, v)

GetProofOver(hashes) == \E o \in Pubkeys, h \in hashes : get_proof(o, h)

VerifyAuditIntegrityOver(hashes) ==
    \E o \in Pubkeys, h \in hashes, r \in ExpectedHashes :
        verify_audit_integrity(o, h, r)

StakeTokensOver(users, amounts, durations) ==
    \E u \in users, a \in amounts, d \in durations :
        \E p \in {Pool, u} : stake_tokens(u, p, a, d)

ClaimRewardsOver(users) ==
    \E u \in users, t \in Pubkeys : claim_rewards(u, t)

VoteOnProposalOver(voters, weights) ==
    \E u \in voters, i \in ProposalIds, w \in weights, b \in BOOLEAN :
        vote_on_proposal(u, i, w, b)

\* The registry alone.
SubmitProofStep == SubmitProofOver(ContractHashes, AuditScores)
UpdateVerificationStep == UpdateVerificationOver(ContractHashes)
GetProofStep == GetProofOver(ContractHashes)
VerifyAuditIntegrityStep == VerifyAuditIntegrityOver(ContractHashes)

NextRegistry ==
    \/ SubmitProofStep
    \/ UpdateVerificationStep
    \/ GetProofStep
    \/ VerifyAuditIntegrityStep
    \/ TickRegistry

\* lib.rs does no arithmetic: the build profile plays no part in the registry.
InitRegistry == Init /\ overflowChecks = TRUE

SpecRegistry == InitRegistry /\ [][NextRegistry]_vars

\* Staking and rewards alone.
StakeTokensStep == StakeTokensOver(Pubkeys, Amounts, Durations)
ClaimRewardsStep == ClaimRewardsOver(Pubkeys)

NextLedger ==
    \/ StakeTokensStep
    \/ ClaimRewardsStep
    \/ Tick

SpecLedger == Init /\ [][NextLedger]_vars

\* Every instruction of both programs, on one contract hash and with the
\* large holder as the only staker, over a short run of the clock.
SubmitProofOne == SubmitProofOver({"h1"}, {100})
UpdateVerificationOne == UpdateVerificationOver({"h1"})
GetProofOne == GetProofOver({"h1"})
VerifyAuditIntegrityOne == VerifyAuditIntegrityOver({"h1"})
StakeTokensOne ==
    StakeTokensOver({"k1"}, {0, LargeAmount, U64_MAX},
                    {SECONDS_PER_DAY - 1, SECONDS_PER_DAY})
ClaimRewardsOne == ClaimRewardsOver(Pubkeys)
VoteOnProposalOne == VoteOnProposalOver(Pubkeys, {0, 1000, U64_MAX})

NextAll ==
    \/ SubmitProofOne
    \/ UpdateVerificationOne
    \/ GetProofOne
    \/ VerifyAuditIntegrityOne
    \/ StakeTokensOne
    \/ ClaimRewardsOne
    \/ VoteOnProposalOne
    \/ TickRegistry

SpecAll == Init /\ [][NextAll]_vars

\* Staking and rewards when one holder owns the whole supply of the mint and
\* the claimant may name any token account, the pool included, as destination.
WholeSupplyTokens == [a \in TokenAccounts |-> IF a = "k1" THEN U64_MAX ELSE 0]

ClaimRewardsIntoOver(users, accounts) ==
    \E u \in users, t \in accounts : claim_rewards(u, t)

InitWholeSupply ==
    /\ now = 0
    /\ overflowChecks \in BOOLEAN
    /\ proofs = <<>>
    /\ stakes = <<>>
    /\ votes = <<>>
    /\ tokens = WholeSupplyTokens
    /\ last = Outcome("init", None, None, "Ok", NoEvent)

StakeTokensWhole == StakeTokensOver(Pubkeys, {1000, U64_MAX}, {SECONDS_PER_DAY})
ClaimRewardsInto == ClaimRewardsIntoOver(Pubkeys, TokenAccounts)

NextWholeSupply ==
    \/ StakeTokensWhole
    \/ ClaimRewardsInto
    \/ Tick

SpecWholeSupply == InitWholeSupply /\ [][NextWholeSupply]_vars

\* Staking and rewards with lock durations up to the ends of the u64 range.
LongDurations == {SECONDS_PER_DAY, I64_MAX, SignBitDuration, U64_MAX}

StakeTokensLong == StakeTokensOver(Pubkeys, {1000}, LongDurations)

NextLongLock ==
    \/ StakeTokensLong
    \/ ClaimRewardsStep
    \/ Tick

SpecLongLock == Init /\ [][NextLongLock]_vars

\* Governance: stakes of one size into the pool; the first holder votes on two
\* proposals, the second on the first of them.
GovernedProposals == {1, 2}

VoteOnProposalsOver(voters, ids, weights) ==
    \E u \in voters, i \in ids, w \in weights, b \in BOOLEAN :
        vote_on_proposal(u, i, w, b)

StakeTokensVoter == \E u \in Pubkeys : stake_tokens(u, Pool, 1000, SECONDS_PER_DAY)
VoteOnProposalStep ==
    \/ VoteOnProposalsOver({"k1"}, GovernedProposals, VoteWeights)
    \/ VoteOnProposalsOver({"k2"}, {1}, VoteWeights)

NextGovernance ==
    \/ StakeTokensVoter
    \/ VoteOnProposalStep
    \/ TickRegistry

\* A day-long lock taken within the run of the clock overflows nothing: the
\* build profile plays no part here.
InitGovernance == Init /\ overflowChecks = TRUE

SpecGovernance == InitGovernance /\ [][NextGovernance]_vars

\* The registry on one contract hash, every argument of submit_proof drawn
\* from two values (CIDv0 and CIDv1 lengths; scores that may coincide).
WideCids == {46, 59}
WideScores == {7, 42}
WideAddresses == {"a1", "a2"}

SubmitProofWide ==
    \E o \in Pubkeys, r \in ExpectedHashes, c \in WideCids, s \in WideScores,
       a \in WideAddresses, q \in WideScores :
        submit_proof(o, "h1", r, c, s, a, q)

NextRead ==
    \/ SubmitProofWide
    \/ UpdateVerificationOne
    \/ GetProofOne
    \/ VerifyAuditIntegrityOne
    \/ TickRegistry

SpecRead == InitRegistry /\ [][NextRead]_vars

\* Staking and rewards under a clock that keeps advancing: stakes are taken
\* during the first MaxDays days, and the clock runs on for the longest lock
\* after them.
LockDurations == {SECONDS_PER_DAY - 1, SECONDS_PER_DAY, 2 * SECONDS_PER_DAY}
HorizonDays == MaxDays + 2

StakeTokensEarly ==
    /\ now <= MaxDays * SECONDS_PER_DAY
    /\ StakeTokensOver(Pubkeys, {1000}, LockDurations)

TickOn == ClockAdvance(HorizonDays)

NextUnlock ==
    \/ StakeTokensEarly
    \/ ClaimRewardsStep
    \/ TickOn

\* Stakes of 1000 over a few days overflow nothing: the build profile plays
\* no part here.
InitUnlock == Init /\ overflowChecks = TRUE

\* The cluster advances the clock sysvar whatever the program does.
SpecUnlock == InitUnlock /\ [][NextUnlock]_vars /\ WF_vars(TickOn)

(***************************************************************************)
(* Properties of the registry.                                             *)
(***************************************************************************)
\* C1: a submit_proof for a contract hash whose AuditProof already exists
\* fails (the init constraint's account-already-in-use error, the spec's
\* AlreadyExists) whatever the caller and the other arguments, and leaves
\* every record as it was; each record sits under its own contract_hash.
C1_ExclusiveCreation ==
    [][/\ (last'.op = "submit_proof" /\ last'.key \in DOMAIN proofs) =>
            /\ last'.result = "AccountAlreadyInUse"
            /\ proofs' = proofs
       /\ \A h \in DOMAIN proofs' : proofs'[h].contract_hash = h]_vars

C1_Witness ==
    /\ last.op = "submit_proof"
    /\ last.result = "AccountAlreadyInUse"
    /\ proofs[last.key].oracle # last.caller

\* C2: update_verification on an existing AuditProof by a signer other than
\* the stored oracle fails with Unauthorized and changes no record; by the
\* stored oracle it succeeds and sets verified to the supplied boolean,
\* changing nothing else.
C2_OracleGate ==
    [][(last'.op = "update_verification" /\ last'.key \in DOMAIN proofs) =>
       LET a == last'.caller
           k == last'.key
       IN \A v \in BOOLEAN :
            update_verification(a, k, v) =>
                IF a # proofs[k].oracle
                THEN last'.result = "Unauthorized" /\ proofs' = proofs
                ELSE /\ last'.result = "Ok"
                     /\ proofs' = [proofs EXCEPT ![k].verified = v]]_vars

C2_Witness ==
    /\ last.op = "update_verification"
    /\ last.result = "Unauthorized"
    /\ proofs[last.key].oracle # last.caller

\* C3: a step that changes an AuditProof's verified flag or
\* verification_timestamp is an update_verification or verify_audit_integrity
\* whose caller is the record's stored oracle, and no step deletes a record.
C3_OnlyOracleChangesVerification ==
    [][\A k \in DOMAIN proofs :
        /\ k \in DOMAIN proofs'
        /\ (\/ proofs'[k].verified # proofs[k].verified
            \/ proofs'[k].verification_timestamp # proofs[k].verification_timestamp)
           => /\ last'.op \in {"update_verification", "verify_audit_integrity"}
              /\ last'.caller = proofs[k].oracle]_vars

\* C4: verify_audit_integrity on an existing AuditProof succeeds exactly when
\* the supplied hash equals the stored report_hash; on success verified is
\* TRUE and verification_timestamp is the call time, on mismatch the result is
\* HashMismatch and no record changes.
C4_IntegrityGate ==
    [][(last'.op = "verify_audit_integrity" /\ last'.key \in DOMAIN proofs) =>
       LET a == last'.caller
           k == last'.key
       IN \A r \in ExpectedHashes :
            verify_audit_integrity(a, k, r) =>
                IF r = proofs[k].report_hash
                THEN /\ last'.result = "Ok"
                     /\ proofs' = [proofs EXCEPT
                                     ![k].verified = TRUE,
                                     ![k].verification_timestamp = now]
                ELSE last'.result = "HashMismatch" /\ proofs' = proofs]_vars

C4_Witness ==
    /\ last.op = "verify_audit_integrity"
    /\ last.result = "Ok"
    /\ proofs[last.key].verified
    /\ proofs[last.key].verification_timestamp = now
    /\ proofs[last.key].timestamp < now

\* C5: every AuditProof has an audit_score between 0 and 100.
C5_AuditScoreInRange ==
    \A k \in DOMAIN proofs : proofs[k].audit_score \in 0..100

(***************************************************************************)
(* Properties of staking and rewards.                                      *)
(***************************************************************************)
\* <<q, r>> with a * b = q * c + r and 0 <= r < c, on unbounded integers.
RECURSIVE MulDivMod(_, _, _)
MulDivMod(a, b, c) ==
    IF b = 0 THEN <<0, 0>>
    ELSE LET h == MulDivMod(a, b \div 2, c)
             q == 2 * h[1] + (IF b % 2 = 1 THEN a \div c ELSE 0)
             r == 2 * h[2] + (IF b % 2 = 1 THEN a % c ELSE 0)
         IN <<q + r \div c, r % c>>

\* floor(floor(amount / 100) * elapsed / 86400) as a mathematical integer
ExactAccrued(amount, elapsed) ==
    MulDivMod(amount \div REWARD_DIVISOR, elapsed, SECONDS_PER_DAY)[1]

C7_Original ==
    [][last'.op = "stake_tokens" =>
       LET u == last'.caller
       IN \A p \in {Pool, u}, a \in Amounts, d \in Durations :
            stake_tokens(u, p, a, d) =>
                /\ a = 0 => last'.result = "InvalidAmount"
                /\ (a > 0 /\ d < SECONDS_PER_DAY) =>
                        last'.result = "InvalidDuration"
                /\ (a = 0 \/ d < SECONDS_PER_DAY) =>
                        UNCHANGED <<stakes, tokens>>]_vars

\* C7 as amended: for a caller who has no StakeAccount yet, stake_tokens with
\* amount = 0 fails with InvalidAmount and with amount > 0 and a duration
\* under a day fails with InvalidDuration, creating no record and moving no
\* tokens; every StakeAccount has amount > 0 and duration >= 86400.
C7_ValidatedStake ==
    [][/\ (last'.op = "stake_tokens" /\ last'.caller \notin DOMAIN stakes) =>
            LET u == last'.caller
            IN \A p \in {Pool, u}, a \in Amounts, d \in Durations :
                stake_tokens(u, p, a, d) =>
                    /\ a = 0 => last'.result = "InvalidAmount"
                    /\ (a > 0 /\ d < SECONDS_PER_DAY) =>
                            last'.result = "InvalidDuration"
                    /\ (a = 0 \/ d < SECONDS_PER_DAY) =>
                            UNCHANGED <<stakes, tokens>>
       /\ \A u \in DOMAIN stakes' :
            stakes'[u].amount > 0 /\ stakes'[u].duration >= SECONDS_PER_DAY]_vars

C7_Witness ==
    /\ last.op = "stake_tokens"
    /\ last.result = "InvalidDuration"
    /\ last.caller \notin DOMAIN stakes

\* C8: stake_tokens by a staker who already has a StakeAccount fails (the init
\* constraint's account-already-in-use error, the spec's AlreadyStaked)
\* whatever its arguments, moves no tokens and leaves every StakeAccount as it
\* was; each StakeAccount sits under its own user.
C8_OneStakePerStaker ==
    [][/\ (last'.op = "stake_tokens" /\ last'.caller \in DOMAIN stakes) =>
            /\ last'.result = "AccountAlreadyInUse"
            /\ UNCHANGED <<stakes, tokens>>
       /\ \A u \in DOMAIN stakes' : stakes'[u].user = u]_vars

C8_Witness ==
    /\ last.op = "stake_tokens"
    /\ last.result = "AccountAlreadyInUse"
    /\ last.caller \in DOMAIN stakes

\* C9: claim_rewards before unlock_time fails with StakeNotUnlocked, pays
\* nothing and leaves rewards_claimed as it was, accrued reward or not.
C9_LockedClaimFails ==
    [][(/\ last'.op = "claim_rewards"
        /\ last'.caller \in DOMAIN stakes
        /\ now < stakes[last'.caller].unlock_time) =>
            /\ last'.result = "StakeNotUnlocked"
            /\ UNCHANGED <<stakes, tokens>>]_vars

C9_Witness ==
    /\ last.op = "claim_rewards"
    /\ last.result = "StakeNotUnlocked"
    /\ stakes[last.caller].amount = 1000
    /\ ExactAccrued(1000, now - stakes[last.caller].staked_at) > 0

\* C10: a successful claim_rewards at now >= unlock_time moves exactly
\* floor(floor(amount/100) * (now - staked_at) / 86400) - rewards_claimed from
\* the pool to the account the caller names and adds as much to
\* rewards_claimed; when that amount is not positive the call fails with
\* NoRewardsAvailable.
C10_ExactPayout ==
    [][(/\ last'.op = "claim_rewards"
        /\ last'.caller \in DOMAIN stakes
        /\ now >= stakes[last'.caller].unlock_time) =>
       LET u == last'.caller
           claimable == ExactAccrued(stakes[u].amount, now - stakes[u].staked_at)
                            - stakes[u].rewards_claimed
       IN /\ last'.result = "Ok" =>
                /\ tokens'[Pool] = tokens[Pool] - claimable
                /\ \E t \in Pubkeys : tokens'[t] = tokens[t] + claimable
                /\ stakes'[u].rewards_claimed =
                        stakes[u].rewards_claimed + claimable
          /\ claimable <= 0 => last'.result = "NoRewardsAvailable"]_vars

\* C11: every StakeAccount has rewards_claimed no greater than
\* floor(floor(amount/100) * max(0, now - staked_at) / 86400); rewards_claimed
\* is 0 at creation and no step lowers it.
C11_ClaimedWithinAccrual ==
    [][\A u \in DOMAIN stakes' :
        LET elapsed == now' - stakes'[u].staked_at
        IN /\ stakes'[u].rewards_claimed <=
                ExactAccrued(stakes'[u].amount, IF elapsed > 0 THEN elapsed ELSE 0)
           /\ IF u \in DOMAIN stakes
              THEN stakes'[u].rewards_claimed >= stakes[u].rewards_claimed
              ELSE stakes'[u].rewards_claimed = 0]_vars

\* C12: every successful claim_rewards, at time t, pays the accrual of t less
\* what the staker's earlier claims paid: the running total rewards_claimed
\* then equals floor(floor(amount/100) * (t - staked_at) / 86400), the pool
\* gives up exactly the difference, and no accrual is paid twice.
C12_ClaimsSumToAccrual ==
    [][(last'.op = "claim_rewards" /\ last'.result = "Ok") =>
       LET u == last'.caller
           accrued == ExactAccrued(stakes[u].amount, now - stakes[u].staked_at)
       IN /\ stakes'[u].rewards_claimed = accrued
          /\ last'.event.amount = accrued - stakes[u].rewards_claimed
          /\ tokens[Pool] - tokens'[Pool] = last'.event.amount]_vars

\* C13: a claim_rewards that directly follows a successful claim_rewards of
\* the same staker (the clock has not moved) fails with NoRewardsAvailable,
\* pays nothing and leaves rewards_claimed as it was.
C13_RepeatedClaimFails ==
    [][(/\ last.op = "claim_rewards"
        /\ last.result = "Ok"
        /\ last'.op = "claim_rewards"
        /\ last'.caller = last.caller) =>
            /\ now' = now
            /\ last'.result = "NoRewardsAvailable"
            /\ UNCHANGED <<stakes, tokens>>]_vars

C13_Witness ==
    /\ last.op = "claim_rewards"
    /\ last.result = "NoRewardsAvailable"
    /\ stakes[last.caller].rewards_claimed > 0
    /\ stakes[last.caller].rewards_claimed =
            ExactAccrued(stakes[last.caller].amount,
                         now - stakes[last.caller].staked_at)

\* C14: a claim_rewards whose reward computation leaves the u64 range (the
\* product floor(amount/100) * (now - staked_at) here) fails with
\* ArithmeticError and changes no record and no balance; claim_rewards never
\* panics.
C14_OverflowIsArithmeticError ==
    [][(last'.op = "claim_rewards" /\ last'.caller \in DOMAIN stakes) =>
       LET acc == stakes[last'.caller]
           daily_rewards == acc.amount \div REWARD_DIVISOR
           elapsed == now - acc.staked_at
       IN /\ last'.result # "Panic"
          /\ (/\ Unlocked(acc, now)
              /\ elapsed > 0
              /\ daily_rewards > U64_MAX \div elapsed) =>
                    /\ last'.result = "ArithmeticError"
                    /\ UNCHANGED <<stakes, tokens>>]_vars

\* C15: every StakeAccount has unlock_time = staked_at + duration as
\* integers, hence unlock_time >= staked_at + 86400: no accepted duration
\* gives a stake that unlocks before it was made.
C15_UnlockAfterLock ==
    \A u \in DOMAIN stakes :
        /\ stakes[u].unlock_time = stakes[u].staked_at + stakes[u].duration
        /\ stakes[u].unlock_time >= stakes[u].staked_at + SECONDS_PER_DAY

(***************************************************************************)
(* Properties of governance.                                               *)
(***************************************************************************)
\* C16 as stated: vote_on_proposal succeeds only for a caller with a
\* StakeAccount and 0 < vote_weight <= amount; with vote_weight = 0 it fails
\* with InvalidVoteWeight, with vote_weight > amount with InsufficientStake,
\* creating no VoteAccount; every VoteAccount has 0 < vote_weight <= the
\* voter's staked amount.
C16_Original ==
    [][/\ last'.op = "vote_on_proposal" =>
            LET u == last'.caller
            IN \A i \in GovernedProposals, w \in VoteWeights, b \in BOOLEAN :
                (VoteKey(i, u) = last'.key /\ vote_on_proposal(u, i, w, b)) =>
                    /\ last'.result = "Ok" =>
                            u \in DOMAIN stakes /\ 0 < w /\ w <= stakes[u].amount
                    /\ w = 0 => last'.result = "InvalidVoteWeight"
                    /\ (u \in DOMAIN stakes /\ w > stakes[u].amount) =>
                            last'.result = "InsufficientStake"
                    /\ last'.result # "Ok" => votes' = votes
       /\ \A k \in DOMAIN votes' :
            /\ votes'[k].voter \in DOMAIN stakes'
            /\ 0 < votes'[k].vote_weight
            /\ votes'[k].vote_weight <= stakes'[votes'[k].voter].amount]_vars

\* C16 as amended: vote_on_proposal succeeds only for a caller with a
\* StakeAccount and 0 < vote_weight <= amount; for a caller who has a
\* StakeAccount and has not yet voted on the proposal, vote_weight = 0 fails
\* with InvalidVoteWeight and vote_weight > amount with InsufficientStake; no
\* failed vote creates a VoteAccount; every VoteAccount has
\* 0 < vote_weight <= the voter's staked amount.
C16_VoteWithinStake ==
    [][/\ last'.op = "vote_on_proposal" =>
            LET u == last'.caller
            IN \A i \in GovernedProposals, w \in VoteWeights, b \in BOOLEAN :
                (VoteKey(i, u) = last'.key /\ vote_on_proposal(u, i, w, b)) =>
                    /\ last'.result = "Ok" =>
                            u \in DOMAIN stakes /\ 0 < w /\ w <= stakes[u].amount
                    /\ (u \in DOMAIN stakes /\ <<i, u>> \notin DOMAIN votes) =>
                            /\ w = 0 => last'.result = "InvalidVoteWeight"
                            /\ w > stakes[u].amount =>
                                    last'.result = "InsufficientStake"
                    /\ last'.result # "Ok" => votes' = votes
       /\ \A k \in DOMAIN votes' :
            /\ votes'[k].voter \in DOMAIN stakes'
            /\ 0 < votes'[k].vote_weight
            /\ votes'[k].vote_weight <= stakes'[votes'[k].voter].amount]_vars

C16_Witness ==
    /\ last.op = "vote_on_proposal"
    /\ last.result = "InsufficientStake"
    /\ last.caller \in DOMAIN stakes
    /\ \E k \in DOMAIN votes : votes[k].voter # last.caller

\* C17: a vote_on_proposal for a (proposal_id, voter) pair that already has
\* a VoteAccount fails (the init constraint's account-already-in-use error,
\* the spec's AlreadyVoted) whatever its vote_weight and support; no step
\* deletes a VoteAccount or changes any of its fields; each VoteAccount sits
\* under its own (proposal_id, voter).
C17_OneVotePerPair ==
    [][/\ (/\ last'.op = "vote_on_proposal"
           /\ \E k \in DOMAIN votes : VoteKey(k[1], k[2]) = last'.key) =>
                /\ last'.result = "AccountAlreadyInUse"
                /\ votes' = votes
       /\ \A k \in DOMAIN votes : k \in DOMAIN votes' /\ votes'[k] = votes[k]
       /\ \A k \in DOMAIN votes' :
            votes'[k].proposal_id = k[1] /\ votes'[k].voter = k[2]]_vars

C17_Witness ==
    /\ last.op = "vote_on_proposal"
    /\ last.result = "AccountAlreadyInUse"
    /\ \E k \in DOMAIN votes :
            /\ VoteKey(k[1], k[2]) = last.key
            /\ votes[k].voted_at < now
    /\ \E k \in DOMAIN votes : VoteKey(k[1], k[2]) # last.key

(***************************************************************************)
(* Reading the registry back.                                              *)
(***************************************************************************)
\* C18: a successful submit_proof(h, r, cid, score, addr, a) stores exactly
\* its arguments, the call time and verified = FALSE; get_proof changes no
\* record and no balance and returns the stored contract_hash, report_hash,
\* contract_address, ipfs_cid, audit_score, risk_score, timestamp and
\* verified; called right after the submit_proof it returns the submitted
\* values, the submission time and verified = FALSE.
C18_GetProofReadsBack ==
    [][/\ (last'.op = "submit_proof" /\ last'.result = "Ok") =>
            LET o == last'.caller
                h == last'.key
            IN \A r \in ExpectedHashes, c \in WideCids, s \in WideScores,
                  a \in WideAddresses, q \in WideScores :
                submit_proof(o, h, r, c, s, a, q) =>
                    /\ proofs'[h].contract_hash = h
                    /\ proofs'[h].report_hash = r
                    /\ proofs'[h].ipfs_cid = c
                    /\ proofs'[h].risk_score = s
                    /\ proofs'[h].contract_address = a
                    /\ proofs'[h].audit_score = q
                    /\ proofs'[h].timestamp = now
                    /\ proofs'[h].verified = FALSE
       /\ (last'.op = "get_proof" /\ last'.key \in DOMAIN proofs) =>
            LET p == proofs[last'.key]
                e == last'.event
            IN /\ last'.result = "Ok"
               /\ UNCHANGED <<proofs, stakes, votes, tokens>>
               /\ e.contract_hash = p.contract_hash
               /\ e.report_hash = p.report_hash
               /\ e.contract_address = p.contract_address
               /\ e.ipfs_cid = p.ipfs_cid
               /\ e.audit_score = p.audit_score
               /\ e.risk_score = p.risk_score
               /\ e.timestamp = p.timestamp
               /\ e.verified = p.verified
       /\ (/\ last.op = "submit_proof"
           /\ last.result = "Ok"
           /\ last'.op = "get_proof"
           /\ last'.key = last.key) =>
                /\ last'.event.contract_hash = last.key
                /\ last'.event.report_hash = last.event.report_hash
                /\ last'.event.contract_address = last.event.contract_address
                /\ last'.event.audit_score = last.event.audit_score
                /\ last'.event.risk_score = last.event.risk_score
                /\ last'.event.timestamp = now
                /\ last'.event.verified = FALSE]_vars

C18_Witness ==
    /\ last.op = "get_proof"
    /\ last.result = "Ok"
    /\ last.event.audit_score # last.event.risk_score
    /\ last.event.ipfs_cid = 59
    /\ last.event.timestamp > 0
    /\ ~last.event.verified

\* C20: no step deletes an AuditProof or changes its contract_hash,
\* report_hash, ipfs_cid, contract_address, audit_score, risk_score, timestamp
\* or oracle (update_verification, verify_audit_integrity and get_proof
\* included), and the oracle of a record is the caller of the submit_proof
\* that created it.
C20_ProofFieldsImmutable ==
    [][/\ \A k \in DOMAIN proofs :
            /\ k \in DOMAIN proofs'
            /\ proofs'[k].contract_hash = proofs[k].contract_hash
            /\ proofs'[k].report_hash = proofs[k].report_hash
            /\ proofs'[k].ipfs_cid = proofs[k].ipfs_cid
            /\ proofs'[k].contract_address = proofs[k].contract_address
            /\ proofs'[k].audit_score = proofs[k].audit_score
            /\ proofs'[k].risk_score = proofs[k].risk_score
            /\ proofs'[k].timestamp = proofs[k].timestamp
            /\ proofs'[k].oracle = proofs[k].oracle
       /\ \A k \in DOMAIN proofs' \ DOMAIN proofs :
            /\ last'.op = "submit_proof"
            /\ last'.key = k
            /\ proofs'[k].oracle = last'.caller]_vars

C20_Witness ==
    /\ last.op = "update_verification"
    /\ last.result = "Ok"
    /\ proofs[last.key].verified
    /\ proofs[last.key].verification_timestamp > proofs[last.key].timestamp
    /\ proofs[last.key].oracle = last.caller
    /\ \E k \in DOMAIN proofs : proofs[k].oracle # last.caller

(***************************************************************************)
(* Operations on different keys.  Two operations commute when neither      *)
(* changes what the other would do: the outcome of the second (its result, *)
(* the record it writes, the amount it moves) is the same before and after *)
(* the first, at the same clock value.                                     *)
(***************************************************************************)
\* The token accounts whose balance the step changes.
ChangedBalances == {a \in TokenAccounts : tokens'[a] # tokens[a]}

C21_VerificationTimestamp ==
    [][/\ \A k \in DOMAIN proofs' \ DOMAIN proofs :
            proofs'[k].verification_timestamp = 0
       /\ \A k \in DOMAIN proofs :
            /\ k \in DOMAIN proofs'
            /\ proofs'[k].verification_timestamp =
                    IF /\ last'.op = "verify_audit_integrity"
                       /\ last'.result = "Ok"
                       /\ last'.key = k
                    THEN now
                    ELSE proofs[k].verification_timestamp]_vars

C21_Witness ==
    /\ last.op = "update_verification"
    /\ last.result = "Ok"
    /\ ~proofs[last.key].verified
    /\ proofs[last.key].verification_timestamp > 0
    /\ \E k \in DOMAIN proofs :
            proofs[k].verified /\ proofs[k].verification_timestamp = 0

\* C22: no step deletes a StakeAccount or changes its user, amount, duration,
\* staked_at or unlock_time; a step that changes a StakeAccount is a
\* claim_rewards of its staker; vote_on_proposal changes no StakeAccount and
\* no token balance.
C22_StakeFrame ==
    [][/\ \A u \in DOMAIN stakes :
            /\ u \in DOMAIN stakes'
            /\ stakes'[u].user = stakes[u].user
            /\ stakes'[u].amount = stakes[u].amount
            /\ stakes'[u].duration = stakes[u].duration
            /\ stakes'[u].staked_at = stakes[u].staked_at
            /\ stakes'[u].unlock_time = stakes[u].unlock_time
            /\ stakes'[u] # stakes[u] =>
                    last'.op = "claim_rewards" /\ last'.caller = u
       /\ last'.op = "vote_on_proposal" => UNCHANGED <<stakes, tokens>>]_vars

C22_Witness ==
    /\ last.op = "vote_on_proposal"
    /\ last.result = "Ok"
    /\ stakes[last.caller].rewards_claimed > 0

\* C23: a StakeAccount that is unlockable (now >= unlock_time) stays so in
\* every later state, and a claim_rewards on an unlockable stake does not
\* fail with StakeNotUnlocked; under a clock that keeps advancing every
\* StakeAccount is eventually unlockable.
C23_UnlockIsOneWay ==
    /\ [][/\ \A u \in DOMAIN stakes :
                Unlocked(stakes[u], now) =>
                    u \in DOMAIN stakes' /\ Unlocked(stakes'[u], now')
          /\ (/\ last'.op = "claim_rewards"
              /\ last'.caller \in DOMAIN stakes
              /\ Unlocked(stakes[last'.caller], now)) =>
                    last'.result # "StakeNotUnlocked"]_vars
    /\ \A u \in Pubkeys :
            (u \in DOMAIN stakes) ~>
                (u \in DOMAIN stakes /\ Unlocked(stakes[u], now))

C23_Witness ==
    /\ last.op = "claim_rewards"
    /\ last.result = "NoRewardsAvailable"
    /\ stakes[last.caller].staked_at > 0
    /\ now > stakes[last.caller].unlock_time
    /\ \E u \in DOMAIN stakes : ~Unlocked(stakes[u], now)

\* C24: a claim_rewards on a stake with amount < 100 fails with
\* NoRewardsAvailable; on a stake with amount >= 100 that has paid nothing
\* yet, a claim_rewards at now >= unlock_time whose product
\* floor(amount/100) * (now - staked_at) fits a u64 has
\* floor(floor(amount/100) * (now - staked_at) / 86400) >= 1 to claim and
\* does not fail with NoRewardsAvailable.
C24_SmallStakesAccrueNothing ==
    [][(last'.op = "claim_rewards" /\ last'.caller \in DOMAIN stakes) =>
       LET acc == stakes[last'.caller]
           daily_rewards == acc.amount \div REWARD_DIVISOR
           elapsed == now - acc.staked_at
       IN /\ acc.amount < REWARD_DIVISOR =>
                last'.result = "NoRewardsAvailable"
          /\ (/\ acc.amount >= REWARD_DIVISOR
              /\ acc.rewards_claimed = 0
              /\ Unlocked(acc, now)
              /\ elapsed >= 0
              /\ (elapsed = 0 \/ daily_rewards <= U64_MAX \div elapsed)) =>
                    /\ ExactAccrued(acc.amount, elapsed) >= 1
                    /\ last'.result # "NoRewardsAvailable"]_vars

\* The staked amounts less the rewards claimed, summed over the stakers of S.
RECURSIVE NetStaked(_)
NetStaked(S) ==
    IF S = {} THEN 0
    ELSE LET u == CHOOSE x \in S : TRUE
         IN stakes[u].amount - stakes[u].rewards_claimed + NetStaked(S \ {u})

RECURSIVE TotalOf(_, _)
TotalOf(bal, S) ==
    IF S = {} THEN 0
    ELSE LET a == CHOOSE x \in S : TRUE
         IN bal[a] + TotalOf(bal, S \ {a})

\* C25: the pool holds its initial balance plus every staked amount less
\* every StakeAccount's rewards_claimed and is never negative; the balances
\* of the stakers and the pool together stay constant; a claim_rewards whose
\* claimable exceeds the pool balance fails and leaves rewards_claimed as it
\* was.
C25_PoolConservation ==
    [][/\ tokens'[Pool] = InitialTokens[Pool] + NetStaked(DOMAIN stakes)'
       /\ tokens'[Pool] >= 0
       /\ TotalOf(tokens', TokenAccounts) = TotalOf(InitialTokens, TokenAccounts)
       /\ (/\ last'.op = "claim_rewards"
           /\ last'.caller \in DOMAIN stakes
           /\ ExactAccrued(stakes[last'.caller].amount,
                           now - stakes[last'.caller].staked_at)
                    - stakes[last'.caller].rewards_claimed > tokens[Pool]) =>
                /\ last'.result # "Ok"
                /\ stakes' = stakes]_vars

\* C26: a claim_rewards changes no StakeAccount but its caller's; what it
\* pays is computed from the caller's own StakeAccount; a caller with no
\* StakeAccount gets an account error, and nothing is paid or changed.
C26_ClaimsOwnStakeOnly ==
    [][last'.op = "claim_rewards" =>
       LET c == last'.caller
       IN /\ \A v \in DOMAIN stakes \ {c} :
                v \in DOMAIN stakes' /\ stakes'[v] = stakes[v]
          /\ c \notin DOMAIN stakes =>
                /\ last'.result = "AccountNotInitialized"
                /\ UNCHANGED <<stakes, tokens>>
          /\ last'.result = "Ok" =>
                LET own == ClaimRewardsBody(stakes[c], now, overflowChecks)
                IN /\ own.result = "Ok"
                   /\ last'.event.amount = own.claimable
                   /\ tokens[Pool] - tokens'[Pool] = own.claimable
                   /\ stakes'[c] = own.account]_vars

C26_Witness ==
    /\ last.op = "claim_rewards"
    /\ last.result = "Ok"
    /\ \E v \in DOMAIN stakes \ {last.caller} :
            /\ stakes[v].amount # stakes[last.caller].amount
            /\ stakes[v].rewards_claimed = 0
            /\ Unlocked(stakes[v], now)

====
